---- MODULE Spec2Model ----
(***************************************************************************)
(* Model of src/main.py: the /suggest-recipes endpoint, its two sequential *)
(* LLM calls (groq_chat), and the JSON extraction helper (extract_json).   *)
(*                                                                         *)
(* A text is a sequence of lexemes.  The lexemes are the units the code's  *)
(* regular expressions and json.loads tell apart: the braces and brackets, *)
(* ":" and ",", the three-backtick fence marker, the word json of a fence  *)
(* tag, a line break, the literal null, a JSON string literal (written by  *)
(* its content: "rice" is the lexeme of the literal "rice" with quotes)    *)
(* and a word of prose.  String literals and prose hold no brace, no       *)
(* backtick and no line break.  "fence" is the three-backtick marker and   *)
(* "nl" the line break.                                                    *)
(***************************************************************************)
EXTENDS Integers, Sequences, FiniteSets, TLC

VARIABLES
    pc,                 \* request -> "new" | "classify_wait" | "recipe_wait" | "done"
    items,              \* request -> grocery_list.items
    calls,              \* request -> the outbound calls issued, in order
    upstream,           \* request -> the upstream answers received, in order
    chatlog,            \* request -> what each groq_chat call returned or raised
    xlog,               \* request -> the strategy each extract_json call returned by
    raised,             \* request -> every exception raised, in order
    food_items_result,  \* request -> local of suggest_recipes
    food_items,         \* request -> local of suggest_recipes
    non_food_items,     \* request -> local of suggest_recipes
    recipes_result,     \* request -> local of suggest_recipes
    resp,               \* request -> the HTTP response sent to the client
    text,               \* the argument of a direct extract_json call
    xpc,                \* "idle" | "call" | "done": the direct extract_json call
    xres                \* what the direct extract_json call returned or raised

vars == <<pc, items, calls, upstream, chatlog, xlog, raised, food_items_result,
          food_items, non_food_items, recipes_result, resp, text, xpc, xres>>

reqvars == <<pc, items, calls, upstream, chatlog, xlog, raised, food_items_result,
             food_items, non_food_items, recipes_result, resp>>

-----------------------------------------------------------------------------
(* Bounds *)

\* The longest text handed to a direct extract_json call, in segments.
MaxSegs == 4

-----------------------------------------------------------------------------
(* JSON values, as json.loads builds them *)

JNull == [k |-> "null", v |-> <<>>]
JStr(s) == [k |-> "str", v |-> s]
JArr(seq) == [k |-> "arr", v |-> seq]
JObj(map) == [k |-> "obj", v |-> map]
\* A local that has not been assigned.
Unset == [k |-> "unset", v |-> <<>>]

EmptyMap == <<>>

\* The lexemes that are JSON string literals.
StrLits == {"food_items", "non_food_items", "recipes", "additional_ingredients",
            "name", "rice", "soap", "pilaf", "salt"}

\* JSON whitespace between tokens.
IsWs(c) == c = "nl"

RECURSIVE SkipWs(_, _)
SkipWs(t, i) ==
    IF i <= Len(t) /\ IsWs(t[i]) THEN SkipWs(t, i + 1) ELSE i

PFail == [ok |-> FALSE, val |-> JNull, next |-> 0]
POk(val, next) == [ok |-> TRUE, val |-> val, next |-> next]

RECURSIVE ParseValue(_, _), ParseElems(_, _, _), ParseMembers(_, _, _)

\* One JSON value starting at or after position i.
ParseValue(t, i) ==
    LET j == SkipWs(t, i) IN
    IF j > Len(t) THEN PFail
    ELSE IF t[j] \in StrLits THEN POk(JStr(t[j]), j + 1)
    ELSE IF t[j] = "null" THEN POk(JNull, j + 1)
    ELSE IF t[j] = "[" THEN
        LET e == SkipWs(t, j + 1) IN
        IF e <= Len(t) /\ t[e] = "]" THEN POk(JArr(<<>>), e + 1)
        ELSE ParseElems(t, j + 1, <<>>)
    ELSE IF t[j] = "{" THEN
        LET e == SkipWs(t, j + 1) IN
        IF e <= Len(t) /\ t[e] = "}" THEN POk(JObj(EmptyMap), e + 1)
        ELSE ParseMembers(t, j + 1, EmptyMap)
    ELSE PFail

\* The elements of an array after "[" or ",", up to "]".
ParseElems(t, i, acc) ==
    LET r == ParseValue(t, i) IN
    IF ~r.ok THEN PFail
    ELSE LET e == SkipWs(t, r.next) IN
         IF e > Len(t) THEN PFail
         ELSE IF t[e] = "," THEN ParseElems(t, e + 1, Append(acc, r.val))
         ELSE IF t[e] = "]" THEN POk(JArr(Append(acc, r.val)), e + 1)
         ELSE PFail

\* The members of an object after "{" or ",", up to "}"; a repeated key keeps
\* its last value.
ParseMembers(t, i, acc) ==
    LET n == SkipWs(t, i) IN
    IF n > Len(t) \/ t[n] \notin StrLits THEN PFail
    ELSE LET c == SkipWs(t, n + 1) IN
         IF c > Len(t) \/ t[c] # ":" THEN PFail
         ELSE LET r == ParseValue(t, c + 1) IN
              IF ~r.ok THEN PFail
              ELSE LET e == SkipWs(t, r.next)
                       m == (t[n] :> r.val) @@ acc
                   IN  IF e > Len(t) THEN PFail
                       ELSE IF t[e] = "," THEN ParseMembers(t, e + 1, m)
                       ELSE IF t[e] = "}" THEN POk(JObj(m), e + 1)
                       ELSE PFail

\* json.loads: the whole text is one JSON document, or JSONDecodeError.
JsonLoads(t) ==
    LET r == ParseValue(t, 1) IN
    IF r.ok /\ SkipWs(t, r.next) > Len(t) THEN POk(r.val, r.next) ELSE PFail

-----------------------------------------------------------------------------
(* Exceptions *)

HTTPException(status, detail) ==
    [type |-> "HTTPException", status |-> status, detail |-> detail]
OtherException(type, message) ==
    [type |-> type, status |-> 0, detail |-> message]
JSONDecodeError == OtherException("JSONDecodeError", <<"Expecting value">>)

StatusStr(s) ==
    CASE s = 400 -> "400" [] s = 429 -> "429" [] s = 500 -> "500" [] OTHER -> "0"

\* str(e): an HTTPException prints as "<status>: <detail>" (Starlette's
\* __str__); any other exception prints its message.
StrOf(e) ==
    IF e.type = "HTTPException" THEN <<StatusStr(e.status), ": ">> \o e.detail
    ELSE e.detail

-----------------------------------------------------------------------------
(* extract_json *)

SubText(t, i, j) == SubSeq(t, i, j)

StartsAt(t, i, pat) ==
    /\ i + Len(pat) - 1 <= Len(t)
    /\ \A n \in 1..Len(pat) : t[i + n - 1] = pat[n]

FenceJson == <<"fence", "json", "nl">>
FencePlain == <<"fence", "nl">>
FenceClose == <<"nl", "fence">>

Min(S) == CHOOSE x \in S : \A y \in S : x <= y
Max(S) == CHOOSE x \in S : \A y \in S : y <= x

NoMatch == [found |-> FALSE, from |-> 0, to |-> 0, end |-> 0]

\* open ({.*?}) close at position i: the group is the shortest run from the
\* brace after the opening fence to a closing brace followed by the closing fence.
FencedAt(t, i, open) ==
    LET b == i + Len(open)
        ends == {j \in (b + 1)..Len(t) : t[j] = "}" /\ StartsAt(t, j + 1, FenceClose)}
    IN  IF StartsAt(t, i, open) /\ b <= Len(t) /\ t[b] = "{" /\ ends # {}
        THEN [found |-> TRUE, from |-> b, to |-> Min(ends),
              end |-> Min(ends) + Len(FenceClose)]
        ELSE NoMatch

\* ({.*}) at position i: from this brace to the last closing brace of the text.
GreedyAt(t, i) ==
    LET ends == {j \in (i + 1)..Len(t) : t[j] = "}"}
    IN  IF i <= Len(t) /\ t[i] = "{" /\ ends # {}
        THEN [found |-> TRUE, from |-> i, to |-> Max(ends), end |-> Max(ends)]
        ELSE NoMatch

\* The alternation of json_pattern at position i: the first alternative that
\* matches, in the pattern's order.
PatternAt(t, i) ==
    IF FencedAt(t, i, FenceJson).found THEN FencedAt(t, i, FenceJson)
    ELSE IF FencedAt(t, i, FencePlain).found THEN FencedAt(t, i, FencePlain)
    ELSE GreedyAt(t, i)

\* re.findall(json_pattern, response, re.DOTALL), flattened to the non-empty
\* groups: the matches from left to right, none overlapping an earlier one.
RECURSIVE FindAll(_, _)
FindAll(t, i) ==
    IF i > Len(t) THEN <<>>
    ELSE LET m == PatternAt(t, i) IN
         IF m.found THEN <<SubText(t, m.from, m.to)>> \o FindAll(t, m.end + 1)
         ELSE FindAll(t, i + 1)

\* re.search(r'\{.*\}', response, re.DOTALL): the first brace to the last
\* closing brace.
SearchOutermost(t) ==
    LET starts == {i \in 1..Len(t) : GreedyAt(t, i).found}
    IN  IF starts = {} THEN NoMatch ELSE GreedyAt(t, Min(starts))

XOk(val, via) == [ok |-> TRUE, val |-> val, via |-> via, raised |-> <<>>]
XFail(trace) == [ok |-> FALSE, val |-> JNull, via |-> "none", raised |-> trace]

\* The candidates tried in turn (lines 87-91): the first that parses.
FirstParseable(cands) ==
    LET good == {n \in 1..Len(cands) : JsonLoads(cands[n]).ok}
    IN  IF good = {} THEN 0 ELSE Min(good)

NoValidJson == HTTPException(500, <<"No valid JSON found in response.">>)
FailedToExtract(e) == HTTPException(500, <<"Failed to extract JSON: ">> \o StrOf(e))

\* extract_json(response): the value, the strategy that gave it, and the
\* exceptions raised on the way (the last one is the one that leaves the call).
\* Lines 93-100 returning an empty object instead of raising when no brace
\* pair is found.
OutermostLenient(m, p) ==
    IF ~m.found THEN XOk(JObj(EmptyMap), "outermost")
    ELSE IF p.ok THEN XOk(p.val, "outermost")
    ELSE XFail(<<JSONDecodeError, JSONDecodeError, FailedToExtract(JSONDecodeError)>>)

\* Lines 93-100, when no candidate parsed: m is the outermost match and p
\* json.loads of it.
Outermost(m, p) ==
    IF ~m.found THEN XFail(<<JSONDecodeError, NoValidJson, FailedToExtract(NoValidJson)>>)
    ELSE IF p.ok THEN XOk(p.val, "outermost")
    ELSE XFail(<<JSONDecodeError, JSONDecodeError, FailedToExtract(JSONDecodeError)>>)

OutermostOf(t, m) ==
    Outermost(m, IF m.found THEN JsonLoads(SubText(t, m.from, m.to)) ELSE PFail)

\* Lines 79-100, when the whole text did not parse: cands are the matches of
\* json_pattern and n the first of them that parses (0: none).
Fallback(t, cands, n) ==
    IF n # 0 THEN XOk(JsonLoads(cands[n]).val, "candidate")
    ELSE OutermostOf(t, SearchOutermost(t))

FallbackOf(t, cands) == Fallback(t, cands, FirstParseable(cands))

\* Lines 72-75, given json.loads of the whole text.
WholeOrFallback(t, whole) ==
    IF whole.ok THEN XOk(whole.val, "whole") ELSE FallbackOf(t, FindAll(t, 1))

ExtractJson(t) == WholeOrFallback(t, JsonLoads(t))

-----------------------------------------------------------------------------
(* The direct extract_json call *)

Segs == {<<"{">>, <<"}">>, <<"prose">>, <<"rice">>, <<"[", "]">>,
         <<"{", "food_items", ":", "[", "rice", "]", "}">>,
         FenceJson, FencePlain, FenceClose}

RECURSIVE Concat(_)
Concat(ss) == IF ss = <<>> THEN <<>> ELSE Head(ss) \o Concat(Tail(ss))

Texts == {Concat(ss) : ss \in UNION {[1..n -> Segs] : n \in 0..MaxSegs}}

Requests == {"r1", "r2"}

InitReq ==
    /\ pc = [r \in Requests |-> "new"]
    /\ items = [r \in Requests |-> <<>>]
    /\ calls = [r \in Requests |-> <<>>]
    /\ upstream = [r \in Requests |-> <<>>]
    /\ chatlog = [r \in Requests |-> <<>>]
    /\ xlog = [r \in Requests |-> <<>>]
    /\ raised = [r \in Requests |-> <<>>]
    /\ food_items_result = [r \in Requests |-> Unset]
    /\ food_items = [r \in Requests |-> Unset]
    /\ non_food_items = [r \in Requests |-> Unset]
    /\ recipes_result = [r \in Requests |-> Unset]
    /\ resp = [r \in Requests |-> [pending |-> TRUE]]

InitExtract ==
    /\ InitReq
    /\ text \in Texts
    /\ xpc = "call"
    /\ xres = XFail(<<>>)

CallExtractJson ==
    /\ xpc = "call"
    /\ xres' = ExtractJson(text)
    /\ xpc' = "done"
    /\ UNCHANGED <<text, reqvars>>

NextExtract == CallExtractJson

SpecExtract == InitExtract /\ [][NextExtract]_vars

-----------------------------------------------------------------------------
(* groq_chat *)

\* What client.post gives: an HTTP response (status, body text, parsed body
\* with or without a "choices" list of message contents), a timeout, or a
\* transport failure.
HttpAnswer(status, body, has_choices, choices) ==
    [kind |-> "http", status |-> status, text |-> body,
     has_choices |-> has_choices, choices |-> choices]
TimeoutAnswer == [kind |-> "timeout", status |-> 0, text |-> "",
                  has_choices |-> FALSE, choices |-> <<>>]
TransportAnswer == [kind |-> "transport", status |-> 0, text |-> "",
                    has_choices |-> FALSE, choices |-> <<>>]

Is2xx(status) == 200 <= status /\ status <= 299

ChatOk(content) == [ok |-> TRUE, val |-> content, raised |-> <<>>]
ChatFail(trace) == [ok |-> FALSE, val |-> <<>>, raised |-> trace]

InvalidJson(e) ==
    HTTPException(500, <<"Groq API returned invalid JSON: ">> \o StrOf(e))
EmptyResponse == HTTPException(500, <<"Empty response from Groq API.">>)
GroqApiError(status, body) == HTTPException(status, <<"Groq API Error: ", body>>)
TimedOut == HTTPException(500, <<"Groq API request timed out.">>)
UnexpectedError(e) == HTTPException(500, <<"Unexpected Error: ">> \o StrOf(e))

\* The try body of groq_chat returning the last choice instead of the first.
GroqChatTryLastChoice(up) ==
    IF up.kind = "timeout" THEN ChatFail(<<OtherException("TimeoutException", <<"timed out">>)>>)
    ELSE IF up.kind = "transport" THEN ChatFail(<<OtherException("ConnectError", <<"connection failed">>)>>)
    ELSE IF ~Is2xx(up.status) THEN ChatFail(<<OtherException("HTTPStatusError", <<up.text>>)>>)
    ELSE IF up.has_choices /\ up.choices # <<>> THEN
        LET content == up.choices[Len(up.choices)] IN
        IF JsonLoads(content).ok THEN ChatOk(content)
        ELSE ChatFail(<<JSONDecodeError, InvalidJson(JSONDecodeError)>>)
    ELSE ChatFail(<<EmptyResponse>>)

\* The try body of groq_chat without the json.loads of lines 54-59.
GroqChatTryNoCheck(up) ==
    IF up.kind = "timeout" THEN ChatFail(<<OtherException("TimeoutException", <<"timed out">>)>>)
    ELSE IF up.kind = "transport" THEN ChatFail(<<OtherException("ConnectError", <<"connection failed">>)>>)
    ELSE IF ~Is2xx(up.status) THEN ChatFail(<<OtherException("HTTPStatusError", <<up.text>>)>>)
    ELSE IF up.has_choices /\ up.choices # <<>> THEN ChatOk(up.choices[1])
    ELSE ChatFail(<<EmptyResponse>>)

\* The try body of groq_chat (lines 42-61): the content, or the exceptions
\* raised in it, the last one leaving the body.
GroqChatTry(up) ==
    IF up.kind = "timeout" THEN ChatFail(<<OtherException("TimeoutException", <<"timed out">>)>>)
    ELSE IF up.kind = "transport" THEN ChatFail(<<OtherException("ConnectError", <<"connection failed">>)>>)
    ELSE IF ~Is2xx(up.status) THEN ChatFail(<<OtherException("HTTPStatusError", <<up.text>>)>>)
    ELSE IF up.has_choices /\ up.choices # <<>> THEN
        LET content == up.choices[1] IN
        IF JsonLoads(content).ok THEN ChatOk(content)
        ELSE ChatFail(<<JSONDecodeError, InvalidJson(JSONDecodeError)>>)
    ELSE ChatFail(<<EmptyResponse>>)

\* The except clauses of groq_chat (lines 63-68), given the exception that
\* left the try body: HTTPException is an Exception, so the last clause takes it.
GroqChatExcept(up, e) ==
    IF e.type = "HTTPStatusError" THEN GroqApiError(up.status, up.text)
    ELSE IF e.type = "TimeoutException" THEN TimedOut
    ELSE UnexpectedError(e)

Last(seq) == seq[Len(seq)]

\* groq_chat, from the answer of client.post on.
GroqChatLeave(up, b) ==
    IF b.ok THEN b
    ELSE ChatFail(Append(b.raised, GroqChatExcept(up, Last(b.raised))))

GroqChat(up) == GroqChatLeave(up, GroqChatTry(up))

-----------------------------------------------------------------------------
(* filter_food_items, get_recipes, suggest_recipes *)

StepOk(val, chat, via) ==
    [ok |-> TRUE, val |-> val, raised |-> <<>>, chat |-> <<chat>>, via |-> <<via>>]
StepFail(trace, chat, via) ==
    [ok |-> FALSE, val |-> JNull, raised |-> trace, chat |-> <<chat>>, via |-> via]

\* return await extract_json(response), given what groq_chat gave (c) and, when
\* it returned, what extract_json gave (x).
Extracted(c, x) ==
    IF ~c.ok THEN StepFail(c.raised, c, <<>>)
    ELSE IF x.ok THEN StepOk(x.val, c, x.via)
    ELSE StepFail(x.raised, c, <<x.via>>)

ChatThenExtract(c) == Extracted(c, IF c.ok THEN ExtractJson(c.val) ELSE XFail(<<>>))

\* filter_food_items after its call has been answered (lines 118-119).
FilterFoodItems(up) == ChatThenExtract(GroqChat(up))

\* get_recipes after its call has been answered (lines 156-157).
GetRecipes(up) == ChatThenExtract(GroqChat(up))

\* Falsy that takes only None for false: an empty list counts as true.
FalsyNullOnly(v) == v.k = "null"

\* Python's truth value: not v.
Falsy(v) ==
    \/ v.k = "null"
    \/ v.k = "arr" /\ v.v = <<>>
    \/ v.k = "obj" /\ DOMAIN v.v = {}

\* What get_recipes returns without a call (line 124).
EmptyRecipes ==
    JObj(("recipes" :> JArr(<<>>)) @@ ("additional_ingredients" :> JArr(<<>>)))

\* get_recipes issues its call unless food_items is empty (line 123).
GetRecipesCalls(fi) == ~Falsy(fi)

\* d.get(key): None, not [], for a missing key.
DictGetNone(d, key) ==
    IF key \in DOMAIN d.v THEN d.v[key] ELSE JNull

\* d.get(key, []) on a dict.
DictGet(d, key) ==
    IF key \in DOMAIN d.v THEN d.v[key] ELSE JArr(<<>>)

\* .get on a value that is no dict.
AttributeError(v) ==
    OtherException("AttributeError",
        <<CASE v.k = "arr" -> "'list' object has no attribute 'get'"
            [] v.k = "str" -> "'str' object has no attribute 'get'"
            [] OTHER -> "'NoneType' object has no attribute 'get'">>)

NoFoodItems == HTTPException(400, <<"No food-related items found.">>)

\* The except clauses of suggest_recipes (lines 181-184): the exceptions
\* raised there, the last one reaching the client.
OuterExcept(e) ==
    IF e.type = "HTTPException" THEN <<e>> ELSE <<HTTPException(500, StrOf(e))>>

ErrorResponse(e) == [status |-> e.status, detail |-> e.detail]

\* The success response with the two item lists exchanged.
SuccessResponseSwapped(fi, nfi, rr) ==
    [status |-> 200,
     body |-> [filtered_food_items |-> nfi,
               non_food_items |-> fi,
               recipes |-> DictGet(rr, "recipes"),
               additional_ingredients |-> DictGet(rr, "additional_ingredients")]]

\* The success response (lines 174-179).
SuccessResponse(fi, nfi, rr) ==
    [status |-> 200,
     body |-> [filtered_food_items |-> fi,
               non_food_items |-> nfi,
               recipes |-> DictGet(rr, "recipes"),
               additional_ingredients |-> DictGet(rr, "additional_ingredients")]]

Finish(r, trace, response) ==
    /\ raised' = [raised EXCEPT ![r] = @ \o trace]
    /\ resp' = [resp EXCEPT ![r] = response]
    /\ pc' = [pc EXCEPT ![r] = "done"]

\* An exception e leaves the try body of suggest_recipes, after trace.
Fail(r, trace, e) ==
    LET o == OuterExcept(e)
        t == IF o = <<e>> THEN trace ELSE trace \o o
    IN  Finish(r, t, ErrorResponse(Last(o)))

ItemLists == {<<"rice", "soap">>, <<"soap">>, <<"rice">>}

Classified(fi, nfi) ==
    <<"{", "food_items", ":", "[">> \o fi \o <<"]", ",", "non_food_items", ":", "[">>
        \o nfi \o <<"]", "}">>

ClassifyContents ==
    {Classified(<<"rice">>, <<"soap">>),
     Classified(<<>>, <<"soap">>),
     Classified(<<"rice">>, <<"rice">>),
     <<"{", "non_food_items", ":", "[", "soap", "]", "}">>,
     <<"{", "food_items", ":", "[", "rice", "]", "}">>,
     <<"[", "rice", "]">>,
     FenceJson \o Classified(<<"rice">>, <<"soap">>) \o FenceClose,
     <<"prose">> \o Classified(<<"rice">>, <<"soap">>) \o <<"prose">>,
     <<"prose">>}

OneRecipe == <<"recipes", ":", "[", "{", "name", ":", "pilaf", "}", "]">>

RecipeContents ==
    {<<"{">> \o OneRecipe \o <<",", "additional_ingredients", ":", "[", "salt", "]", "}">>,
     <<"{">> \o OneRecipe \o <<"}">>,
     <<"{", "}">>,
     <<"[", "]">>,
     <<"nl", "{", "}", "nl">>,
     FencePlain \o <<"{", "}">> \o FenceClose}

\* The answers the upstream can give to a call whose good contents are C.
Answers(C) ==
    {HttpAnswer(200, "", TRUE, <<c>>) : c \in C}
    \cup {HttpAnswer(200, "", TRUE, <<c, <<"prose">>>>) : c \in {x \in C : Len(x) = 2}}
    \cup {HttpAnswer(200, "", TRUE, <<>>), HttpAnswer(200, "", FALSE, <<>>),
          HttpAnswer(429, "rate limited", FALSE, <<>>), TimeoutAnswer, TransportAnswer}

\* POST /suggest-recipes arrives: suggest_recipes runs to the first await,
\* the classification call (lines 160-164, 118, 42).
Receive(r) ==
    /\ pc[r] = "new"
    /\ \E its \in ItemLists : items' = [items EXCEPT ![r] = its]
    /\ calls' = [calls EXCEPT ![r] = Append(@, "classify")]
    /\ pc' = [pc EXCEPT ![r] = "classify_wait"]
    /\ UNCHANGED <<upstream, chatlog, xlog, raised, food_items_result, food_items,
                   non_food_items, recipes_result, resp, text, xpc, xres>>

\* suggest_recipes issuing the classification call again when it failed.
AfterClassifyRetry(r, s) ==
    IF ~s.ok THEN
        /\ calls' = [calls EXCEPT ![r] = Append(@, "classify")]
        /\ raised' = [raised EXCEPT ![r] = @ \o s.raised]
        /\ UNCHANGED <<pc, resp, food_items_result, food_items, non_food_items>>
    ELSE IF s.val.k # "obj" THEN
        /\ food_items_result' = [food_items_result EXCEPT ![r] = s.val]
        /\ Fail(r, <<AttributeError(s.val)>>, AttributeError(s.val))
        /\ UNCHANGED <<calls, food_items, non_food_items>>
    ELSE
        /\ food_items_result' = [food_items_result EXCEPT ![r] = s.val]
        /\ food_items' = [food_items EXCEPT ![r] = DictGet(s.val, "food_items")]
        /\ non_food_items' =
               [non_food_items EXCEPT ![r] = DictGet(s.val, "non_food_items")]
        /\ IF Falsy(DictGet(s.val, "food_items")) THEN
               /\ Fail(r, <<NoFoodItems>>, NoFoodItems)
               /\ UNCHANGED calls
           ELSE IF GetRecipesCalls(DictGet(s.val, "food_items")) THEN
               /\ calls' = [calls EXCEPT ![r] = Append(@, "recipe")]
               /\ pc' = [pc EXCEPT ![r] = "recipe_wait"]
               /\ UNCHANGED <<raised, resp>>
           ELSE
               /\ Finish(r, <<>>, SuccessResponse(DictGet(s.val, "food_items"),
                         DictGet(s.val, "non_food_items"), EmptyRecipes))
               /\ UNCHANGED calls

\* suggest_recipes from the return of filter_food_items, s, on (lines 164-172,
\* 123, 156, 181-184).
AfterClassify(r, s) ==
    IF ~s.ok THEN
        /\ Fail(r, s.raised, Last(s.raised))
        /\ UNCHANGED <<calls, food_items_result, food_items, non_food_items>>
    ELSE IF s.val.k # "obj" THEN
        /\ food_items_result' = [food_items_result EXCEPT ![r] = s.val]
        /\ Fail(r, <<AttributeError(s.val)>>, AttributeError(s.val))
        /\ UNCHANGED <<calls, food_items, non_food_items>>
    ELSE
        /\ food_items_result' = [food_items_result EXCEPT ![r] = s.val]
        /\ food_items' = [food_items EXCEPT ![r] = DictGet(s.val, "food_items")]
        /\ non_food_items' =
               [non_food_items EXCEPT ![r] = DictGet(s.val, "non_food_items")]
        /\ IF Falsy(DictGet(s.val, "food_items")) THEN
               /\ Fail(r, <<NoFoodItems>>, NoFoodItems)
               /\ UNCHANGED calls
           ELSE IF GetRecipesCalls(DictGet(s.val, "food_items")) THEN
               /\ calls' = [calls EXCEPT ![r] = Append(@, "recipe")]
               /\ pc' = [pc EXCEPT ![r] = "recipe_wait"]
               /\ UNCHANGED <<raised, resp>>
           ELSE
               /\ Finish(r, <<>>, SuccessResponse(DictGet(s.val, "food_items"),
                         DictGet(s.val, "non_food_items"), EmptyRecipes))
               /\ UNCHANGED calls

\* suggest_recipes answering with the item lists and no recipes when the
\* recipe step failed.
AfterRecipesPartial(r, s) ==
    IF ~s.ok \/ s.val.k # "obj" THEN
        /\ Finish(r, s.raised,
                  SuccessResponse(food_items[r], non_food_items[r], EmptyRecipes))
        /\ UNCHANGED recipes_result
    ELSE
        /\ recipes_result' = [recipes_result EXCEPT ![r] = s.val]
        /\ Finish(r, <<>>, SuccessResponse(food_items[r], non_food_items[r], s.val))

\* suggest_recipes from the return of get_recipes, s, on (lines 172-184).
AfterRecipes(r, s) ==
    IF ~s.ok THEN
        /\ Fail(r, s.raised, Last(s.raised))
        /\ UNCHANGED recipes_result
    ELSE IF s.val.k # "obj" THEN
        /\ recipes_result' = [recipes_result EXCEPT ![r] = s.val]
        /\ Fail(r, <<AttributeError(s.val)>>, AttributeError(s.val))
    ELSE
        /\ recipes_result' = [recipes_result EXCEPT ![r] = s.val]
        /\ Finish(r, <<>>, SuccessResponse(food_items[r], non_food_items[r], s.val))

\* What a step's call adds to the request's logs.
Logged(r, up, s) ==
    /\ upstream' = [upstream EXCEPT ![r] = Append(@, up)]
    /\ chatlog' = [chatlog EXCEPT ![r] = @ \o s.chat]
    /\ xlog' = [xlog EXCEPT ![r] = @ \o s.via]

\* The classification call is answered: suggest_recipes runs on to the recipe
\* call or to its response (lines 47-68, 119, 165-172, 123, 156, 181-184).
ClassifyReturn(r) ==
    /\ pc[r] = "classify_wait"
    /\ \E up \in Answers(ClassifyContents) :
        /\ Logged(r, up, FilterFoodItems(up))
        /\ AfterClassify(r, FilterFoodItems(up))
    /\ UNCHANGED <<items, recipes_result, text, xpc, xres>>

\* The recipe call is answered: suggest_recipes runs to its response
\* (lines 47-68, 157, 172-184).
RecipeReturn(r) ==
    /\ pc[r] = "recipe_wait"
    /\ \E up \in Answers(RecipeContents) :
        /\ Logged(r, up, GetRecipes(up))
        /\ AfterRecipes(r, GetRecipes(up))
    /\ UNCHANGED <<items, calls, food_items_result, food_items, non_food_items,
                   text, xpc, xres>>

Init ==
    /\ InitReq
    /\ text = <<>>
    /\ xpc = "idle"
    /\ xres = XFail(<<>>)

Next ==
    \E r \in Requests :
        \/ Receive(r)
        \/ ClassifyReturn(r)
        \/ RecipeReturn(r)

Spec == Init /\ [][Next]_vars

-----------------------------------------------------------------------------
(* The claims *)

Done(r) == pc[r] = "done"
Succeeded(r) == Done(r) /\ "body" \in DOMAIN resp[r]
IsEmptyList(v) == v.k = "arr" /\ v.v = <<>>
HasKey(v, key) == v.k = "obj" /\ key \in DOMAIN v.v
Assigned(v) == v.k # "unset"
NoFoodResponse == [status |-> 400, detail |-> <<"No food-related items found.">>]

Own(r) ==
    <<pc[r], items[r], calls[r], upstream[r], chatlog[r], xlog[r], raised[r],
      food_items_result[r], food_items[r], non_food_items[r], recipes_result[r],
      resp[r]>>

IsPrefix(a, b) == Len(a) <= Len(b) /\ SubSeq(b, 1, Len(a)) = a

C2_CallsInOrder ==
    \A r \in Requests :
        /\ calls[r] \in {<<>>, <<"classify">>, <<"classify", "recipe">>}
        /\ Len(upstream[r]) <= Len(calls[r])
        /\ Len(calls[r]) = 2 =>
               /\ Len(upstream[r]) >= 1
               /\ chatlog[r][1].ok
               /\ xlog[r][1] # "none"
               /\ food_items_result[r].k = "obj"
        /\ \A q \in Requests :
               (Done(r) /\ Done(q) /\ upstream[r] = upstream[q])
                   => resp[r] = resp[q] /\ calls[r] = calls[q]

C2_StepsOfOneRequest ==
    \A r \in Requests :
        /\ IsPrefix(calls[r], calls'[r])
        /\ Len(calls'[r]) <= Len(calls[r]) + 1
        /\ Len(calls'[r]) > Len(calls[r]) => raised'[r] = <<>>
        /\ Done(r) => Own(r)' = Own(r)
        /\ \A q \in Requests \ {r} : Own(r)' # Own(r) => Own(q)' = Own(q)

Elems(v) == {v.v[i] : i \in DOMAIN v.v}
ItemSet(r) == {JStr(items[r][i]) : i \in DOMAIN items[r]}

\* Two lists that split the set S: lists without repeats, disjoint, covering S.
Partitions(f, n, S) ==
    /\ f.k = "arr" /\ n.k = "arr"
    /\ Cardinality(Elems(f)) = Len(f.v) /\ Cardinality(Elems(n)) = Len(n.v)
    /\ Elems(f) \cap Elems(n) = {}
    /\ Elems(f) \cup Elems(n) = S

\* What the upstream classification returned to request r.
UpstreamClassification(r) == JsonLoads(upstream[r][1].choices[1]).val

\* C3 as stated: in every successful response filtered_food_items and
\* non_food_items partition the provided items.
C3_PartitionsInput ==
    \A r \in Requests :
        Succeeded(r) =>
            Partitions(resp[r].body.filtered_food_items,
                       resp[r].body.non_food_items, ItemSet(r))

\* C3 amended: in every successful response filtered_food_items and
\* non_food_items are the upstream classification's food_items and
\* non_food_items lists as returned ([] for an absent non_food_items); they
\* partition the provided items exactly when the upstream lists, so read, do.
C3_MirrorsUpstream ==
    \A r \in Requests :
        Succeeded(r) =>
            LET u == UpstreamClassification(r) IN
            /\ HasKey(u, "food_items")
            /\ resp[r].body.filtered_food_items = u.v["food_items"]
            /\ resp[r].body.non_food_items =
                   (IF HasKey(u, "non_food_items") THEN u.v["non_food_items"]
                    ELSE JArr(<<>>))
            /\ Partitions(resp[r].body.filtered_food_items,
                          resp[r].body.non_food_items, ItemSet(r))
               <=> Partitions(u.v["food_items"],
                              IF HasKey(u, "non_food_items") THEN u.v["non_food_items"]
                              ELSE JArr(<<>>),
                              ItemSet(r))

\* A successful response whose lists partition the items, and one whose do not.
C3_Witness ==
    /\ Succeeded("r1")
    /\ Partitions(resp["r1"].body.filtered_food_items,
                  resp["r1"].body.non_food_items, ItemSet("r1"))
    /\ Succeeded("r2")
    /\ ~Partitions(resp["r2"].body.filtered_food_items,
                   resp["r2"].body.non_food_items, ItemSet("r2"))

\* C4 as stated: every HTTPException raised while a request is served is the
\* response the client gets, with its status code and detail.
C4_StructuredErrorsAsIs ==
    \A r \in Requests :
        Done(r) =>
            \A i \in DOMAIN raised[r] :
                raised[r][i].type = "HTTPException"
                    => resp[r] = ErrorResponse(raised[r][i])

ResponseFields ==
    {"filtered_food_items", "non_food_items", "recipes", "additional_ingredients"}

\* C5: the four-field success response is sent only when both calls were
\* issued, both returned and both results were parsed, with no exception
\* raised; once anything is raised, or an answer is no 2xx answer with a
\* choice, the response is an error without any of the four fields.
C5_NoPartialResults ==
    \A r \in Requests :
        Done(r) =>
            /\ Succeeded(r) =>
                   /\ resp[r].status = 200
                   /\ DOMAIN resp[r].body = ResponseFields
                   /\ calls[r] = <<"classify", "recipe">>
                   /\ Len(upstream[r]) = 2
                   /\ \A i \in 1..2 : chatlog[r][i].ok /\ xlog[r][i] # "none"
                   /\ food_items_result[r].k = "obj" /\ recipes_result[r].k = "obj"
                   /\ raised[r] = <<>>
            /\ (\/ raised[r] # <<>>
                \/ \E i \in DOMAIN upstream[r] :
                       \/ upstream[r][i].kind # "http"
                       \/ ~Is2xx(upstream[r][i].status)
                       \/ upstream[r][i].choices = <<>>)
                   => /\ DOMAIN resp[r] = {"status", "detail"}
                      /\ resp[r].status >= 400

\* One request succeeded and the other failed at the recipe step, after its
\* classification step had produced the item lists.
C5_Witness ==
    /\ Succeeded("r1")
    /\ Done("r2") /\ ~Succeeded("r2") /\ Len(upstream["r2"]) = 2
    /\ Assigned(food_items["r2"])

\* C6 as stated: whatever parsed result lacks a key, the key counts as [] and
\* nothing is raised for it: a classification result without food_items ends
\* in the no-food-items response, one without non_food_items gives
\* non_food_items = [], and a recipe result without recipes or
\* additional_ingredients gives a success response with [] there.
C6_MissingKeysDefault ==
    \A r \in Requests :
        /\ (Assigned(food_items_result[r]) /\ ~HasKey(food_items_result[r], "food_items"))
               => Done(r) /\ resp[r] = NoFoodResponse
        /\ (Assigned(food_items_result[r]) /\ ~HasKey(food_items_result[r], "non_food_items"))
               => IsEmptyList(non_food_items[r])
        /\ \A key \in {"recipes", "additional_ingredients"} :
               (Assigned(recipes_result[r]) /\ ~HasKey(recipes_result[r], key))
                   => Succeeded(r) /\ IsEmptyList(resp[r].body[key])

\* C6 amended: the same for every parsed result that is a JSON object.
C6_MissingKeysDefaultInObjects ==
    \A r \in Requests :
        /\ (food_items_result[r].k = "obj" /\ ~HasKey(food_items_result[r], "food_items"))
               => Done(r) /\ resp[r] = NoFoodResponse
        /\ (food_items_result[r].k = "obj" /\ ~HasKey(food_items_result[r], "non_food_items"))
               => IsEmptyList(non_food_items[r])
        /\ \A key \in {"recipes", "additional_ingredients"} :
               (recipes_result[r].k = "obj" /\ ~HasKey(recipes_result[r], key))
                   => Succeeded(r) /\ IsEmptyList(resp[r].body[key])

\* A recipe result with recipes and no additional_ingredients, after a
\* classification result with food_items and no non_food_items.
C6_Witness ==
    \E r \in Requests :
        /\ Succeeded(r)
        /\ HasKey(food_items_result[r], "food_items")
        /\ ~HasKey(food_items_result[r], "non_food_items")
        /\ HasKey(recipes_result[r], "recipes")
        /\ ~HasKey(recipes_result[r], "additional_ingredients")
        /\ IsEmptyList(resp[r].body.additional_ingredients)
        /\ ~IsEmptyList(resp[r].body.recipes)

\* The text holds no opening brace with a closing brace after it.
NoBraceContent(t) ==
    ~\E i \in 1..Len(t) : \E j \in (i + 1)..Len(t) : t[i] = "{" /\ t[j] = "}"

\* C7 as stated: extract_json fails on every text without brace-delimited
\* content.
C7_NoBracesFails ==
    (xpc = "done" /\ NoBraceContent(text)) => ~xres.ok

\* C7 amended: on a text without brace-delimited content extract_json fails
\* with 'Failed to extract JSON' unless the whole text is a JSON document (an
\* array, a string, null), which it returns parsed.
C7_NoBracesFailsUnlessJson ==
    (xpc = "done" /\ NoBraceContent(text)) =>
        IF JsonLoads(text).ok
        THEN xres.ok /\ xres.via = "whole" /\ xres.val = JsonLoads(text).val
             /\ xres.val.k # "obj"
        ELSE /\ ~xres.ok
             /\ Last(xres.raised) = FailedToExtract(NoValidJson)

\* A text with prose and fence markers and no brace pair, on which the call
\* has failed.
C7_Witness ==
    /\ xpc = "done" /\ NoBraceContent(text) /\ ~xres.ok
    /\ \E i \in 1..Len(text) : text[i] = "fence"
    /\ \E i \in 1..Len(text) : text[i] = "{"

HasFirstChoice(up) ==
    up.kind = "http" /\ Is2xx(up.status) /\ up.has_choices /\ up.choices # <<>>

\* C8 as stated: for every 2xx answer with a choice, groq_chat returns the
\* first choice's content unmodified, whatever it is.
C8_ReturnsAnyContent ==
    \A r \in Requests : \A i \in DOMAIN chatlog[r] :
        HasFirstChoice(upstream[r][i])
            => chatlog[r][i].ok /\ chatlog[r][i].val = upstream[r][i].choices[1]

\* C8 amended: for every 2xx answer with a choice whose first content is a
\* JSON document, groq_chat returns that content unmodified; when it is not a
\* JSON document groq_chat raises a 500 error instead.
C8_ReturnsJsonContent ==
    \A r \in Requests : \A i \in DOMAIN chatlog[r] :
        HasFirstChoice(upstream[r][i]) =>
            IF JsonLoads(upstream[r][i].choices[1]).ok
            THEN chatlog[r][i].ok /\ chatlog[r][i].val = upstream[r][i].choices[1]
            ELSE /\ ~chatlog[r][i].ok
                 /\ Last(chatlog[r][i].raised).type = "HTTPException"
                 /\ Last(chatlog[r][i].raised).status = 500

\* An answer with two choices whose first content was returned, and an answer
\* whose content is a fenced block, refused.
C8_Witness ==
    /\ \E i \in DOMAIN chatlog["r1"] :
           Len(upstream["r1"][i].choices) = 2 /\ chatlog["r1"][i].ok
    /\ \E i \in DOMAIN chatlog["r2"] :
           /\ HasFirstChoice(upstream["r2"][i])
           /\ upstream["r2"][i].choices[1][1] = "fence"
           /\ ~chatlog["r2"][i].ok

\* The fenced-block strategy on its own: the contents of the fenced blocks of
\* the text, from left to right.
FencedOnlyAt(t, i) ==
    IF FencedAt(t, i, FenceJson).found THEN FencedAt(t, i, FenceJson)
    ELSE FencedAt(t, i, FencePlain)

RECURSIVE FindFenced(_, _)
FindFenced(t, i) ==
    IF i > Len(t) THEN <<>>
    ELSE LET m == FencedOnlyAt(t, i) IN
         IF m.found THEN <<SubText(t, m.from, m.to)>> \o FindFenced(t, m.end + 1)
         ELSE FindFenced(t, i + 1)

\* C9 as stated: when the whole text does not parse and a fenced block's
\* content does, extract_json returns the parse of the first such block,
\* wherever braces occur around it.
C9_FencedBlockPreferred ==
    (/\ xpc = "done"
     /\ ~JsonLoads(text).ok
     /\ FirstParseable(FindFenced(text, 1)) # 0)
        => /\ xres.ok
           /\ xres.val =
                  JsonLoads(FindFenced(text, 1)[FirstParseable(FindFenced(text, 1))]).val

FailedPrefix == "Failed to extract JSON: "

\* C10: in the endpoint flow every extract_json call returns by its first
\* strategy, the parse of the whole text, and never raises 'Failed to extract
\* JSON', whatever the upstream answered.
C10_ExtractAlwaysWhole ==
    \A r \in Requests :
        /\ \A i \in DOMAIN xlog[r] : xlog[r][i] = "whole"
        /\ \A i \in DOMAIN raised[r] : raised[r][i].detail[1] # FailedPrefix
        /\ Len(xlog[r]) = Cardinality({i \in DOMAIN chatlog[r] : chatlog[r][i].ok})

\* One request whose two extract_json calls returned, and one whose answer
\* was a fenced block, which never reached extract_json.
C10_Witness ==
    /\ Done("r1") /\ xlog["r1"] = <<"whole", "whole">>
    /\ Done("r2") /\ xlog["r2"] = <<>>
    /\ HasFirstChoice(upstream["r2"][1])
    /\ upstream["r2"][1].choices[1][1] = "fence"

====
